---- MODULE Spec2Model ----
(***************************************************************************)
(* Model of src/main.cpp: the two sort strategies that main dispatches to  *)
(* (BubbleSort::sort, QuickSort::sort with quicksort/partition) and the    *)
(* control flow of main itself.                                            *)
(*                                                                         *)
(* A std::vector<int> is a TLA+ sequence; the C++ index k is the sequence  *)
(* position k+1 (see At, swap).  Every sort runs on an instrumented vector *)
(* (a "run" record) that carries, next to the data, ghost counters of the  *)
(* element comparisons and swaps performed, the original position of every *)
(* element, a flag for any access outside [0, size-1], and logs of the     *)
(* partition and quicksort calls.                                          *)
(***************************************************************************)
EXTENDS Integers, Sequences, FiniteSets

\* ---------------------------------------------------------------- bounds
MaxLen == 4        \* longest input line (in tokens) / longest vector
MaxVal == 4        \* integers on the input line are drawn from 1..MaxVal
MaxChoice == 3     \* selectors typed by the user are drawn from -1..MaxChoice

Values == 1..MaxVal
Choices == (0-1)..MaxChoice
Vectors == UNION {[1..n -> Values] : n \in 0..MaxLen}

\* ------------------------------------------------- instrumented vectors
\* The run record of a sort that has not been called.
NotRun ==
  [ran |-> FALSE, data |-> <<>>, tag |-> <<>>, cmps |-> 0, swaps |-> 0,
   oob |-> FALSE, wrapped |-> FALSE, depth |-> 0, maxDepth |-> 0,
   qcalls |-> 0, pcalls |-> <<>>, rcalls |-> <<>>]

\* The run record at the entry of a sort call on the vector v.
Enter(v) ==
  [NotRun EXCEPT !.ran = TRUE, !.data = v, !.tag = [k \in 1..Len(v) |-> k - 1]]

\* std::vector::size()
size(m) == Len(m.data)

InRange(m, k) == 0 <= k /\ k < size(m)

\* data[k] as an rvalue.  Outside the vector the read is undefined; the run
\* record flags it (Touch) and the value read is irrelevant to every claim.
At(m, k) == IF InRange(m, k) THEN m.data[k + 1] ELSE 0

\* records that data[k] was accessed
Touch(m, k) == [m EXCEPT !.oob = @ \/ ~InRange(m, k)]

\* mutant of swap: the assignment back to data[b] is lost
swapLost(m, a, b) ==
  LET t == Touch(Touch(m, a), b) IN
  IF InRange(m, a) /\ InRange(m, b)
    THEN [t EXCEPT !.data = [m.data EXCEPT ![a + 1] = m.data[b + 1]],
                   !.tag = [m.tag EXCEPT ![a + 1] = m.tag[b + 1]],
                   !.swaps = @ + 1]
    ELSE [t EXCEPT !.swaps = @ + 1]

\* std::swap(data[a], data[b])
swap(m, a, b) ==
  LET t == Touch(Touch(m, a), b) IN
  IF InRange(m, a) /\ InRange(m, b)
    THEN [t EXCEPT !.data = [m.data EXCEPT ![a + 1] = m.data[b + 1],
                                           ![b + 1] = m.data[a + 1]],
                   !.tag = [m.tag EXCEPT ![a + 1] = m.tag[b + 1],
                                         ![b + 1] = m.tag[a + 1]],
                   !.swaps = @ + 1]
    ELSE [t EXCEPT !.swaps = @ + 1]

\* ------------------------------------------------------------ BubbleSort
\* mutant of BubbleOutOfOrder: descending order
BubbleOutOfOrderDesc(a, b) == a < b

\* mutant of BubbleOutOfOrder: swaps equal neighbours too
BubbleOutOfOrderOrEqual(a, b) == a >= b

\* line 22: data[j] > data[j + 1]
BubbleOutOfOrder(a, b) == a > b

\* mutant of BubbleInnerBound: the scan runs one pair too far
BubbleInnerBoundLong(n, i) == n - i

\* line 21: data.size() - i - 1
BubbleInnerBound(n, i) == n - i - 1

\* lines 21-25, the inner loop from position j of pass i.  The bound is
\* size_t arithmetic: below zero it wraps to a huge value and the scan leaves
\* the vector; the run record flags that (wrapped) and the pass stops.
RECURSIVE BubbleInner(_, _, _)
BubbleInner(m, i, j) ==
  LET bound == BubbleInnerBound(size(m), i) IN
  IF bound < 0 THEN [m EXCEPT !.wrapped = TRUE]
  ELSE IF j < bound
    THEN LET r == [Touch(Touch(m, j), j + 1) EXCEPT !.cmps = @ + 1] IN
         IF BubbleOutOfOrder(At(m, j), At(m, j + 1))
           THEN BubbleInner(swap(r, j, j + 1), i, j + 1)
           ELSE BubbleInner(r, i, j + 1)
    ELSE m

\* lines 20-26, the outer loop from pass i
RECURSIVE BubbleOuter(_, _)
BubbleOuter(m, i) ==
  IF i < size(m) THEN BubbleOuter(BubbleInner(m, i, 0), i + 1) ELSE m

\* BubbleSort::sort
BubbleSort_sort(v) == BubbleOuter(Enter(v), 0)

\* ------------------------------------------------------------- QuickSort
\* mutant of PivotLess: elements equal to the pivot go left as well
PivotLessOrEqual(x, pivot) == x <= pivot

\* mutant of PivotLess: descending order
PivotGreater(x, pivot) == x > pivot

\* line 49: data[j] < pivot
PivotLess(x, pivot) == x < pivot

\* mutant of PartitionScanFrom: the scan skips the first element
PartitionScanFromNext(low) == low + 1

\* line 48: int j = low
PartitionScanFrom(low) == low

\* lines 48-52, the scan from position j with boundary index i
RECURSIVE PartitionLoop(_, _, _, _, _)
PartitionLoop(m, i, j, high, pivot) ==
  IF j < high
    THEN LET r == [Touch(m, j) EXCEPT !.cmps = @ + 1] IN
         IF PivotLess(At(m, j), pivot)
           THEN PartitionLoop(swap(r, i + 1, j), i + 1, j + 1, high, pivot)
           ELSE PartitionLoop(r, i, j + 1, high, pivot)
    ELSE [m |-> m, i |-> i]

\* QuickSort::partition; returns the vector and the returned index, and logs
\* the call (bounds, vector before and after, result)
partition(m, low, high) ==
  LET pivot == At(m, high)
      s == PartitionLoop(Touch(m, high), low - 1, PartitionScanFrom(low),
                         high, pivot)
      f == swap(s.m, s.i + 1, high)
  IN [m |-> [f EXCEPT !.pcalls = Append(@, [low |-> low, high |-> high,
                                            before |-> m.data,
                                            after |-> f.data,
                                            ret |-> s.i + 1])],
      ret |-> s.i + 1]

\* QuickSort::quicksort; depth/maxDepth count the nested activations, qcalls
\* all activations, rcalls the two recursive calls of every activation
RECURSIVE quicksort(_, _, _)
quicksort(m, low, high) ==
  LET e == [m EXCEPT !.depth = @ + 1,
                     !.maxDepth = IF m.depth + 1 > @ THEN m.depth + 1 ELSE @,
                     !.qcalls = @ + 1]
  IN IF low < high
       THEN LET p == partition(e, low, high)
                pi == p.ret
                c1 == [plow |-> low, phigh |-> high, pi |-> pi,
                       low |-> low, high |-> pi - 1]
                c2 == [plow |-> low, phigh |-> high, pi |-> pi,
                       low |-> pi + 1, high |-> high]
                l == quicksort([p.m EXCEPT !.rcalls = Append(@, c1)],
                               low, pi - 1)
                r == quicksort([l EXCEPT !.rcalls = Append(@, c2)],
                               pi + 1, high)
            IN [r EXCEPT !.depth = @ - 1]
       ELSE [e EXCEPT !.depth = @ - 1]

\* mutant of SizeMinusOneAsInt: the "- 1" is forgotten
SizeAsInt(n) == n

\* line 33: data.size() - 1 passed as int.  For an empty vector the size_t
\* difference is SIZE_MAX, whose conversion to int is -1.
SizeMinusOneAsInt(n) == IF n = 0 THEN 0 - 1 ELSE n - 1

\* QuickSort::sort
QuickSort_sort(v) == quicksort(Enter(v), 0, SizeMinusOneAsInt(Len(v)))

\* ------------------------------------------------------------------ main
VARIABLES
  pc,        \* position in main ("unit" in the unit specification)
  data,      \* main's vector
  choice,    \* main's selector
  stdout,    \* the text written to std::cout, one entry per literal
  printed,   \* the numbers written after "Sorted Data: "
  duration,  \* the number written after "Time taken: "
  events,    \* the calls main has made, in order
  clock,     \* std::chrono::high_resolution_clock
  start,     \* main's start
  finish,    \* main's end
  exitcode,  \* main's return value, meaningful when pc = "exit"
  input,     \* ghost: the vector handed to the sort(s)
  resB,      \* run record of BubbleSort::sort
  resQ,      \* run record of QuickSort::sort
  resP       \* run record of a direct partition call (unit specification)

vars == <<pc, data, choice, stdout, printed, duration, events, clock, start,
          finish, exitcode, input, resB, resQ, resP>>

\* A token of the input line: an integer, or text that operator>> rejects.
Tokens ==
  {[numeric |-> TRUE, value |-> v] : v \in Values}
    \cup {[numeric |-> FALSE, value |-> 0]}

Lines == UNION {[1..n -> Tokens] : n \in 0..MaxLen}

\* lines 267-269: while (iss >> number) data.push_back(number), from token k
RECURSIVE ExtractInts(_, _, _)
ExtractInts(line, k, v) ==
  IF k <= Len(line) /\ line[k].numeric
    THEN ExtractInts(line, k + 1, Append(v, line[k].value))
    ELSE v

PromptNumbers == "Enter numbers to sort (separated by spaces): "
PromptChoice == "Choose sorting algorithm: 1 for Bubble Sort, 2 for Quick Sort: "
InvalidChoiceText == "Invalid choice.\n"
SortedDataText == "Sorted Data: "
TimeTakenText == "Time taken: "

Init ==
  /\ pc = "getline"
  /\ data = <<>>
  /\ choice = 0
  /\ stdout = <<>>
  /\ printed = <<>>
  /\ duration = 0
  /\ events = <<>>
  /\ clock = 0
  /\ start = 0
  /\ finish = 0
  /\ exitcode = 0
  /\ input = <<>>
  /\ resB = NotRun
  /\ resQ = NotRun
  /\ resP = NotRun

\* lines 261-269: prompt, read one line, parse the leading integers
ReadLine ==
  /\ pc = "getline"
  /\ \E line \in Lines :
       /\ data' = ExtractInts(line, 1, <<>>)
       /\ input' = data'
  /\ stdout' = Append(stdout, PromptNumbers)
  /\ events' = Append(events, "getline")
  /\ clock' = clock + 1
  /\ pc' = "cin_choice"
  /\ UNCHANGED <<choice, printed, duration, start, finish, exitcode,
                 resB, resQ, resP>>

\* lines 271-273: prompt, std::cin >> choice.  A failed extraction stores 0;
\* when the stream is already at end of file nothing is stored and choice
\* keeps an indeterminate value: either way some integer.
ReadChoice ==
  /\ pc = "cin_choice"
  /\ \E c \in Choices : choice' = c
  /\ stdout' = Append(stdout, PromptChoice)
  /\ events' = Append(events, "cin_choice")
  /\ clock' = clock + 1
  /\ pc' = "clock_start"
  /\ UNCHANGED <<data, printed, duration, start, finish, exitcode, input,
                 resB, resQ, resP>>

\* line 275
StartClock ==
  /\ pc = "clock_start"
  /\ start' = clock
  /\ events' = Append(events, "clock_start")
  /\ clock' = clock + 1
  /\ pc' = "dispatch"
  /\ UNCHANGED <<data, choice, stdout, printed, duration, finish, exitcode,
                 input, resB, resQ, resP>>

\* mutant of IsBubble: everything but 2 is taken for 1
IsBubbleNotTwo(c) == c # 2

\* mutant of IsBubble: the two selectors are confused
IsBubbleTwo(c) == c = 2

\* line 276: choice == 1
IsBubble(c) == c = 1

\* line 278: choice == 2
IsQuick(c) == c = 2

\* lines 276-277
CallBubble ==
  /\ pc = "dispatch"
  /\ IsBubble(choice)
  /\ resB' = BubbleSort_sort(data)
  /\ data' = resB'.data
  /\ events' = Append(events, "BubbleSort::sort")
  /\ clock' = clock + 1
  /\ pc' = "clock_end"
  /\ UNCHANGED <<choice, stdout, printed, duration, start, finish, exitcode,
                 input, resQ, resP>>

\* lines 278-279
CallQuick ==
  /\ pc = "dispatch"
  /\ ~IsBubble(choice)
  /\ IsQuick(choice)
  /\ resQ' = QuickSort_sort(data)
  /\ data' = resQ'.data
  /\ events' = Append(events, "QuickSort::sort")
  /\ clock' = clock + 1
  /\ pc' = "clock_end"
  /\ UNCHANGED <<choice, stdout, printed, duration, start, finish, exitcode,
                 input, resB, resP>>

\* lines 280-283
InvalidChoice ==
  /\ pc = "dispatch"
  /\ ~IsBubble(choice)
  /\ ~IsQuick(choice)
  /\ stdout' = Append(stdout, InvalidChoiceText)
  /\ exitcode' = 1
  /\ clock' = clock + 1
  /\ pc' = "exit"
  /\ UNCHANGED <<data, choice, printed, duration, events, start, finish,
                 input, resB, resQ, resP>>

\* line 284
EndClock ==
  /\ pc = "clock_end"
  /\ finish' = clock
  /\ events' = Append(events, "clock_end")
  /\ clock' = clock + 1
  /\ pc' = "print_sorted"
  /\ UNCHANGED <<data, choice, stdout, printed, duration, start, exitcode,
                 input, resB, resQ, resP>>

\* lines 286-290
PrintSorted ==
  /\ pc = "print_sorted"
  /\ stdout' = Append(stdout, SortedDataText)
  /\ printed' = data
  /\ events' = Append(events, "print_sorted")
  /\ clock' = clock + 1
  /\ pc' = "print_time"
  /\ UNCHANGED <<data, choice, duration, start, finish, exitcode, input,
                 resB, resQ, resP>>

\* lines 292-295
PrintTime ==
  /\ pc = "print_time"
  /\ duration' = finish - start
  /\ stdout' = Append(stdout, TimeTakenText)
  /\ events' = Append(events, "print_time")
  /\ exitcode' = 0
  /\ clock' = clock + 1
  /\ pc' = "exit"
  /\ UNCHANGED <<data, choice, printed, start, finish, input,
                 resB, resQ, resP>>

Next ==
  \/ ReadLine
  \/ ReadChoice
  \/ StartClock
  \/ CallBubble
  \/ CallQuick
  \/ InvalidChoice
  \/ EndClock
  \/ PrintSorted
  \/ PrintTime

Spec == Init /\ [][Next]_vars

\* --------------------------------------- the sort routines on their own
\* Every vector within the bounds is handed to BubbleSort::sort, to
\* QuickSort::sort and, with every pair of bounds low < high inside it, to
\* partition; each call works on its own copy of the vector.
InitUnit ==
  /\ pc = "unit"
  /\ input \in Vectors
  /\ data = input
  /\ choice = 0
  /\ stdout = <<>>
  /\ printed = <<>>
  /\ duration = 0
  /\ events = <<>>
  /\ clock = 0
  /\ start = 0
  /\ finish = 0
  /\ exitcode = 0
  /\ resB = NotRun
  /\ resQ = NotRun
  /\ resP = NotRun

ApplyBubble ==
  /\ pc = "unit"
  /\ ~resB.ran
  /\ resB' = BubbleSort_sort(input)
  /\ UNCHANGED <<pc, data, choice, stdout, printed, duration, events, clock,
                 start, finish, exitcode, input, resQ, resP>>

ApplyQuick ==
  /\ pc = "unit"
  /\ ~resQ.ran
  /\ resQ' = QuickSort_sort(input)
  /\ UNCHANGED <<pc, data, choice, stdout, printed, duration, events, clock,
                 start, finish, exitcode, input, resB, resP>>

ApplyPartition ==
  /\ pc = "unit"
  /\ ~resP.ran
  /\ \E low \in 0..(Len(input) - 1), high \in 0..(Len(input) - 1) :
       /\ low < high
       /\ resP' = partition(Enter(input), low, high).m
  /\ UNCHANGED <<pc, data, choice, stdout, printed, duration, events, clock,
                 start, finish, exitcode, input, resB, resQ>>

NextUnit ==
  \/ ApplyBubble
  \/ ApplyQuick
  \/ ApplyPartition

SpecUnit == InitUnit /\ [][NextUnit]_vars

\* ---------------------------------------------------------------- claims
Sorted(s) == \A k \in 1..(Len(s) - 1) : s[k] <= s[k + 1]
NonAscending(s) == \A k \in 1..(Len(s) - 1) : s[k] >= s[k + 1]
StrictlyAscending(s) == \A k \in 1..(Len(s) - 1) : s[k] < s[k + 1]
StrictlyDescending(s) == \A k \in 1..(Len(s) - 1) : s[k] > s[k + 1]
Occurrences(s, v) == Cardinality({k \in 1..Len(s) : s[k] = v})
SameMultiset(s, t) ==
  /\ Len(s) = Len(t)
  /\ \A k \in 1..Len(s) : Occurrences(s, s[k]) = Occurrences(t, s[k])
Entries(log) == {log[k] : k \in 1..Len(log)}
BothRan == resB.ran /\ resQ.ran

\* C1: after BubbleSort::sort returns and after QuickSort::sort returns, the
\* vector is in non-descending order: data[i] <= data[i+1] for every
\* adjacent pair of positions.
C1_Ordered ==
  /\ resB.ran => Sorted(resB.data)
  /\ resQ.ran => Sorted(resQ.data)

C1_Witness ==
  /\ BothRan
  /\ Len(input) >= 3
  /\ ~Sorted(input)
  /\ ~NonAscending(input)

\* C2: for both sorts the multiset of values after the sort equals the
\* multiset before it: same length, every value occurring as often as before.
C2_Permutation ==
  /\ resB.ran => SameMultiset(input, resB.data)
  /\ resQ.ran => SameMultiset(input, resQ.data)

C2_Witness ==
  /\ BothRan
  /\ resB.swaps > 0
  /\ resQ.swaps > 0
  /\ resB.data # input
  /\ \E j, k \in 1..Len(input) : j # k /\ input[j] = input[k]

\* C3: BubbleSort::sort and QuickSort::sort applied to equal copies of a
\* vector leave equal vectors, value by value.
C3_SameOutput == BothRan => resB.data = resQ.data

C3_Witness ==
  /\ BothRan
  /\ ~Sorted(input)
  /\ resB.swaps # resQ.swaps
  /\ resB.tag # resQ.tag

\* C4: with a selector other than 1 and 2 main prints "Invalid choice.",
\* returns a non-zero status, calls neither sort (the parsed vector is never
\* modified) and prints neither "Sorted Data" nor "Time taken".
SelectorRead == pc \notin {"getline", "cin_choice", "unit"}
C4_InvalidChoice ==
  (SelectorRead /\ choice \notin {1, 2}) =>
    /\ pc \in {"clock_start", "dispatch", "exit"}
    /\ ~resB.ran
    /\ ~resQ.ran
    /\ data = input
    /\ "BubbleSort::sort" \notin Entries(events)
    /\ "QuickSort::sort" \notin Entries(events)
    /\ SortedDataText \notin Entries(stdout)
    /\ TimeTakenText \notin Entries(stdout)
    /\ pc = "exit" =>
         /\ stdout = <<PromptNumbers, PromptChoice, InvalidChoiceText>>
         /\ exitcode # 0

C4_Witness ==
  /\ pc = "exit"
  /\ choice = 3
  /\ Len(input) >= 2
  /\ ~Sorted(input)

\* C5: with selector 1 or 2 main calls exactly one sort exactly once
\* (BubbleSort for 1, QuickSort for 2) and its calls occur in the order: line
\* read, selector read, start timestamp, sort, end timestamp, "Sorted Data",
\* "Time taken"; the two timestamps enclose the sort call and nothing else.
SortName(c) == IF c = 1 THEN "BubbleSort::sort" ELSE "QuickSort::sort"
ExpectedEvents(c) ==
  <<"getline", "cin_choice", "clock_start", SortName(c), "clock_end",
    "print_sorted", "print_time">>
IsPrefix(s, t) == Len(s) <= Len(t) /\ \A k \in 1..Len(s) : s[k] = t[k]
C5_OneSortInsideTimer ==
  (SelectorRead /\ choice \in {1, 2}) =>
    /\ IsPrefix(events, ExpectedEvents(choice))
    /\ choice = 1 => ~resQ.ran
    /\ choice = 2 => ~resB.ran
    /\ pc = "exit" =>
         /\ events = ExpectedEvents(choice)
         /\ resB.ran = (choice = 1)
         /\ resQ.ran = (choice = 2)
         /\ finish = start + 2   \* one call, the sort, between the two
         /\ duration = finish - start
         /\ printed = data
         /\ stdout = <<PromptNumbers, PromptChoice, SortedDataText,
                       TimeTakenText>>
         /\ exitcode = 0

C5_Witness ==
  /\ pc = "exit"
  /\ choice = 2
  /\ resQ.swaps > 0
  /\ ~Sorted(input)

\* C6: both sorts leave an empty vector empty and a one-element vector
\* unchanged, and return without comparing or swapping any elements.
C6_Trivial ==
  Len(input) <= 1 =>
    /\ resB.ran => (resB.data = input /\ resB.cmps = 0 /\ resB.swaps = 0)
    /\ resQ.ran => (resQ.data = input /\ resQ.cmps = 0 /\ resQ.swaps = 0)

C6_Witness == BothRan /\ Len(input) = 1

\* C7: a call partition(data, low, high) with 0 <= low < high <= length-1
\* returns p with low <= p <= high; afterwards data[p] is the value data[high]
\* had before (the pivot), positions low..p-1 hold values strictly less than
\* the pivot, positions p+1..high hold values >= the pivot, and the positions
\* outside [low, high] are unchanged.
PartitionPost(c) ==
  LET pivot == c.before[c.high + 1] IN
  /\ Len(c.after) = Len(c.before)
  /\ c.low <= c.ret
  /\ c.ret <= c.high
  /\ c.after[c.ret + 1] = pivot
  /\ \A k \in c.low..(c.ret - 1) : c.after[k + 1] < pivot
  /\ \A k \in (c.ret + 1)..c.high : c.after[k + 1] >= pivot
  /\ \A k \in 0..(Len(c.before) - 1) :
       (k < c.low \/ k > c.high) => c.after[k + 1] = c.before[k + 1]
ValidBounds(c) ==
  0 <= c.low /\ c.low < c.high /\ c.high <= Len(c.before) - 1
C7_Partition ==
  \A c \in Entries(resP.pcalls) \cup Entries(resQ.pcalls) :
    ValidBounds(c) => PartitionPost(c)

C7_Witness ==
  /\ resP.ran
  /\ \E c \in Entries(resP.pcalls) :
       /\ 0 < c.low
       /\ c.low < c.ret
       /\ c.ret < c.high
       /\ c.after # c.before

\* C8: BubbleSort::sort swaps only neighbours whose left value is strictly
\* greater (so it performs exactly one swap per inversion of the input) and
\* is stable: of two elements with equal values the one earlier in the input
\* is earlier in the output (tag = original position).
Inversions(s) == {p \in (1..Len(s)) \X (1..Len(s)) : p[1] < p[2] /\ s[p[1]] > s[p[2]]}
C8_BubbleStable ==
  resB.ran =>
    /\ resB.swaps = Cardinality(Inversions(input))
    /\ \A k \in 1..Len(resB.data) : resB.data[k] = input[resB.tag[k] + 1]
    /\ \A j, k \in 1..Len(resB.data) :
         (j < k /\ resB.data[j] = resB.data[k]) => resB.tag[j] < resB.tag[k]

C8_Witness ==
  /\ resB.ran
  /\ resB.swaps >= 2
  /\ \E j, k \in 1..Len(input) : j # k /\ input[j] = input[k]

\* C9 as stated: QuickSort::sort terminates, every recursive call is on a
\* strictly shorter sub-range that excludes the pivot index, and on an
\* already-sorted or reverse-sorted input of length n every partition call
\* returns an endpoint of its range, the nesting depth is n and the number of
\* element comparisons is n(n-1)/2.
QuickVariant ==
  /\ resQ.depth = 0
  /\ resQ.qcalls <= (IF Len(input) = 0 THEN 1 ELSE 2 * Len(input) - 1)
  /\ \A c \in Entries(resQ.rcalls) :
       /\ c.high - c.low < c.phigh - c.plow
       /\ c.plow <= c.low
       /\ c.high <= c.phigh
       /\ (c.pi < c.low \/ c.pi > c.high)
QuickDegenerate ==
  /\ \A c \in Entries(resQ.pcalls) : c.ret \in {c.low, c.high}
  /\ resQ.maxDepth = (IF Len(input) = 0 THEN 1 ELSE Len(input))
  /\ 2 * resQ.cmps = Len(input) * (Len(input) - 1)
C10_InBounds ==
  /\ resB.ran => (~resB.oob /\ ~resB.wrapped)
  /\ resQ.ran =>
       /\ ~resQ.oob
       /\ \A c \in Entries(resQ.pcalls) : ValidBounds(c) /\ c.ret <= c.high

C10_Witness ==
  /\ BothRan
  /\ resB.cmps > 0
  /\ Len(resQ.pcalls) >= 2
====
